---- MODULE Spec2Model ----
(***************************************************************************)
(* Model of the chess analysis backend (server.js, coach.js).              *)
(*                                                                         *)
(* The Node event loop runs one callback to its next await at a time, so   *)
(* every action below is one such run: an HTTP handler from its start or   *)
(* from the await it resumes at up to the next await, the pump from the    *)
(* settlement of fn() up to the call of the next fn(), an engine message   *)
(* delivered to the listeners.                                             *)
(*                                                                         *)
(* chess.js, lru-cache, the Stockfish engine and the Gemini client are     *)
(* dependencies, not code of the repository.  They are modelled by the     *)
(* contract the call sites rely on: loadPgn returns a truthy value exactly *)
(* when the whole movetext loads, move throws on a move that does not      *)
(* apply, the engine answers a go command with one bestmove line (or never *)
(* answers, or postMessage throws), generateContent resolves with some     *)
(* text or rejects.                                                        *)
(***************************************************************************)
EXTENDS Integers, Sequences, FiniteSets, TLC

VARIABLES
    queue,       \* server.js:53  job ids waiting, oldest first
    busy,        \* server.js:54
    jobs,        \* one record per enqueue call, in submission order
    listeners,   \* engine message listeners attached (by job id)
    searching,   \* jobs whose go command the engine has not answered yet
    hung,        \* jobs the engine will never answer
    evalCache,   \* server.js:69  sequence of [key, value], least recent first
    coachModel,  \* coach.js:6    TRUE when a Gemini model is configured
    h,           \* one record per HTTP request
    startLog,    \* history: job ids in the order pump called their fn
    settleLog    \* history: job ids in the order pump settled their future

vars == <<queue, busy, jobs, listeners, searching, hung, evalCache, coachModel,
          h, startLog, settleLog>>

-----------------------------------------------------------------------------
(* Bounds *)

NumHandlers == 3   \* HTTP requests in one behaviour
MaxPly == 2        \* plies of the longest game submitted
MaxWork == 4       \* load of one behaviour: a request counts for the
                   \* evaluations it can ask for, and for one at least
MaxFaults == 1     \* engine faults (a throw, a stall) in one behaviour

Handlers == 1..NumHandlers

-----------------------------------------------------------------------------
(* Values *)

Null == "null"

\* A position is identified by the moves that led to it: within one game
\* the FEN's move counters make every position's FEN distinct.
StartFen == <<>>

Depths == {16}
MultiPVs == {1, 3}
\* movetime is optional in the request body; NoMovetime stands for its absence.
NoMovetime == -1
Movetimes == {NoMovetime}

\* Engine answers: resolve({ bestmove, candidates }) of analyzeFen.
CpScore(v) == [type |-> "cp", value |-> v]
MateScore(v) == [type |-> "mate", value |-> v]
Candidate(r, s) == [rank |-> r, score |-> s]
EngineResults ==
    { [bestmove |-> "a", candidates |-> <<Candidate(1, CpScore(0))>>],
      [bestmove |-> "b", candidates |-> <<Candidate(1, CpScore(-250))>>] }

NoResult == [bestmove |-> Null, candidates |-> <<>>]

-----------------------------------------------------------------------------
(* Movetext.  A string is modelled as its sequence of whitespace-separated *)
(* lexemes; a request body may also carry a pgn that is not a string.      *)

WhiteSans == {"e4", "Nf3"}
BlackSans == {"e5", "Nc6"}
MoveNumbers == {"1.", "2.", "3."}
MoveNumbersEllipsis == {"1...", "2...", "3..."}
ResultTokens == {"1-0", "0-1", "1/2-1/2"}
Star == "*"

MoveNumberAt == <<"1.", "2.", "3.">>
PlainNumber == [t \in MoveNumbersEllipsis |-> CASE t = "1..." -> "1." [] t = "2..." -> "2." [] OTHER -> "3."]

Turn(fen) == IF Len(fen) % 2 = 0 THEN "w" ELSE "b"

SeqRange(s) == {s[k] : k \in DOMAIN s}

\* chess.js: the SAN t names a legal move in the position reached by hist.
LegalSan(hist, t) ==
    /\ t \notin SeqRange(hist)
    /\ \/ Turn(hist) = "w" /\ t \in WhiteSans
       \/ Turn(hist) = "b" /\ t \in BlackSans

Line == <<"e4", "e5", "Nf3", "Nc6">>

RECURSIVE Numbered(_, _)
\* The first n plies of Line written as movetext: "1. e4 e5 2. Nf3 ..."
Numbered(n, k) ==
    IF k > n THEN <<>>
    ELSE (IF k % 2 = 1 THEN <<MoveNumberAt[(k + 1) \div 2]>> ELSE <<>>)
         \o <<Line[k]>> \o Numbered(n, k + 1)

StringPgn(toks) == [isString |-> TRUE, text |-> toks]
NotAStringPgn == [isString |-> FALSE, text |-> <<>>]

\* Request bodies' pgn values the model draws from.
Movetexts ==
    {NotAStringPgn, StringPgn(<<>>), StringPgn(<<"zz">>), StringPgn(<<Star>>),
     StringPgn(<<"1.", "1-0">>)}
    \cup {StringPgn(Numbered(n, 1)) : n \in 1..MaxPly}

\* server.js:76-93 at the granularity of lexemes: "[h]" is a header, "{c}" a
\* comment and "(v)" a variation written without blanks, "$1" a NAG, "nbsp"
\* a non-breaking space between blanks, "0_0" castling written with en
\* dashes.
NormalizeToken(t) ==
    CASE t \in {"[h]", "{c}", "(v)", "$1", "nbsp"} -> <<>>
      [] t = "0-0-0" -> <<"O-O-O">>
      [] t \in {"0-0", "0_0"} -> <<"O-O">>
      [] t \in ResultTokens -> <<>>
      [] t \in MoveNumbersEllipsis -> <<PlainNumber[t]>>
      [] OTHER -> <<t>>

RECURSIVE normalizeTokens(_)
normalizeTokens(toks) ==
    IF toks = <<>> THEN <<>>
    ELSE NormalizeToken(Head(toks)) \o normalizeTokens(Tail(toks))

\* The lexemes after the first close, or <<>> when there is none
RECURSIVE AfterFirst(_, _)
AfterFirst(toks, close) ==
    IF toks = <<>> THEN <<>>
    ELSE IF Head(toks) = close THEN Tail(toks)
    ELSE AfterFirst(Tail(toks), close)

RECURSIVE StripSpans(_, _, _)
\* server.js:84-85  replace(/\{[^}]*\}/g, " ") and replace(/\([^)]*\)/g, " ")
\* on text whose braces stand apart: each match runs from an open lexeme to
\* the first close lexeme after it; an open one with no close after it stays.
StripSpans(toks, open, close) ==
    IF toks = <<>> THEN <<>>
    ELSE IF Head(toks) = open /\ close \in SeqRange(Tail(toks))
         THEN StripSpans(AfterFirst(Tail(toks), close), open, close)
    ELSE <<Head(toks)>> \o StripSpans(Tail(toks), open, close)

\* server.js:71-98
normalizePgn(raw) ==
    IF raw = <<>> THEN <<>>
    ELSE normalizeTokens(StripSpans(StripSpans(raw, "{", "}"), "(", ")"))

IsMoveNumber(t) == t \in MoveNumbers \cup MoveNumbersEllipsis \cup {"1", "2", "3"}
IsResult(t) == t \in ResultTokens \cup {Star}

RECURSIVE LoadMoves(_, _)
\* chess.js loadPgn after it has dropped the move numbers: every lexeme is a
\* legal move or a termination marker, else the load fails.
LoadMoves(toks, hist) ==
    IF toks = <<>> THEN [ok |-> TRUE, moves |-> hist]
    ELSE IF LegalSan(hist, Head(toks)) THEN LoadMoves(Tail(toks), Append(hist, Head(toks)))
    ELSE IF IsResult(Head(toks)) THEN LoadMoves(Tail(toks), hist)
    ELSE [ok |-> FALSE, moves |-> <<>>]

loadPgn(clean) ==
    LET body == SelectSeq(clean, LAMBDA t : ~IsMoveNumber(t))
    IN  IF body = <<>> THEN [ok |-> FALSE, moves |-> <<>>] ELSE LoadMoves(body, <<>>)

RECURSIVE SalvageAborting(_, _)
\* Mutant of Salvage: the scan ends at the first token that does not apply.
SalvageAborting(toks, hist) ==
    IF toks = <<>> THEN hist
    ELSE IF IsMoveNumber(Head(toks)) THEN SalvageAborting(Tail(toks), hist)
    ELSE IF IsResult(Head(toks)) THEN hist
    ELSE IF LegalSan(hist, Head(toks))
         THEN SalvageAborting(Tail(toks), Append(hist, Head(toks)))
    ELSE hist

RECURSIVE Salvage(_, _)
\* server.js:117-123: the history of tmp after the token loop.
Salvage(toks, hist) ==
    IF toks = <<>> THEN hist
    ELSE IF IsMoveNumber(Head(toks)) THEN Salvage(Tail(toks), hist)
    ELSE IF IsResult(Head(toks)) THEN hist
    ELSE IF LegalSan(hist, Head(toks)) THEN Salvage(Tail(toks), Append(hist, Head(toks)))
    ELSE Salvage(Tail(toks), hist)

\* server.js:108-112
FallbackBody(clean) ==
    SelectSeq(StripSpans(StripSpans(clean, "{", "}"), "(", ")"),
              LAMBDA t : t \notin {"{c}", "(v)", "$1"})

NullGame == [isNull |-> TRUE, moves |-> <<>>]
Game(ms) == [isNull |-> FALSE, moves |-> ms]

parseGameLoose(pgn) ==
    LET clean == normalizePgn(pgn)
        strict == loadPgn(clean)
        body == FallbackBody(clean)
        tmp == Salvage(body, <<>>)
    IN  IF strict.ok THEN Game(strict.moves)
        ELSE IF Len(tmp) = 0 THEN NullGame
        ELSE Game(tmp)

-----------------------------------------------------------------------------
(* Single-flight queue and engine session (server.js:52-66, 134-171)       *)

\* What line 135's executor can do: run to its end, or throw at
\* addMessageListener, or throw at a postMessage after the listener is on.
ExecutorOutcomes == {"posted", "throwsBeforeListen", "throwsAfterListen"}

\* A job is one enqueue call: st is "queued", then "running" while fn's
\* promise is pending, "fnResolved"/"fnRejected" once it has settled and
\* pump has not resumed yet, then "resolved"/"rejected" (the future that
\* enqueue returned).  lines is the Map of line 136, its entries in
\* insertion order; sent is history: the info lines the engine has emitted
\* for the job's search.
NewJob(owner, cached, fen, depth, multipv, movetime) ==
    [owner |-> owner, cached |-> cached, fen |-> fen, depth |-> depth,
     multipv |-> multipv, movetime |-> movetime, st |-> "queued",
     out |-> NoResult, err |-> "", lines |-> <<>>, sent |-> <<>>]

Digit == <<"0", "1", "2", "3", "4", "5", "6", "7", "8", "9">>

RECURSIVE Decimal(_)
\* `${n}` of a non-negative integer, as its sequence of characters
Decimal(n) ==
    IF n < 10 THEN <<Digit[n + 1]>>
    ELSE Decimal(n \div 10) \o <<Digit[(n % 10) + 1]>>

\* Mutant of CacheKey: the time budget is left out of the key.
CacheKeyWithoutMovetime(fen, depth, multipv, movetime) ==
    fen \o <<"|">> \o Decimal(depth) \o <<"|">> \o Decimal(multipv)

\* server.js:174  `${fen}|${depth}|${multipv}|${movetime || 0}`, the
\* position's text followed by the characters of the rest
CacheKey(fen, depth, multipv, movetime) ==
    fen \o <<"|">> \o Decimal(depth) \o <<"|">> \o Decimal(multipv)
        \o <<"|">> \o Decimal(IF movetime = NoMovetime THEN 0 ELSE movetime)

JobKeyOf(job) == CacheKey(job.fen, job.depth, job.multipv, job.movetime)

InFlight == {j \in DOMAIN jobs : jobs[j].st \in {"running", "fnResolved", "fnRejected"}}
Settled(j) == jobs[j].st \in {"resolved", "rejected"}

\* The message of the error the engine binding throws; one of the two
\* outcomes carries none, so that the handlers' default text is used.
ThrownMessage(outcome) ==
    IF outcome = "throwsAfterListen" THEN "postMessage failed" ELSE ""

\* Mutant of AwaitOver: the call is not awaited.
AwaitOverAtOnce(r) == TRUE

\* The awaited analyzeFen / analyzeFenCached call of the handler record r:
\* wait is the job whose future it awaits, 0 when the cached value was
\* returned.
AwaitOver(r) == r.wait = 0 \/ (r.wait \in DOMAIN jobs /\ Settled(r.wait))
\* Mutant of AwaitFailed: a rejected future is taken for a resolved one.
AwaitFailedNever(r) == FALSE

AwaitFailed(r) == r.wait # 0 /\ jobs[r.wait].st = "rejected"
Awaited(r) == IF r.wait = 0 THEN r.got ELSE jobs[r.wait].out

\* Promise continuations run before the event loop takes the next message:
\* a pump whose fn() has settled, a handler whose awaited future has.
MicrotaskPending ==
    \/ \E j \in DOMAIN jobs : jobs[j].st \in {"fnResolved", "fnRejected"}
    \/ \E hd \in DOMAIN h : /\ h[hd].pc \in {"awaitAnalyze", "awaitBefore", "awaitAfter"}
                             /\ AwaitOver(h[hd])

\* server.js:135-170: the call fn() of the job j, with the table js.
CallFn(j, js, outcome) ==
    /\ jobs' = [js EXCEPT ![j].st = IF outcome = "posted" THEN "running" ELSE "fnRejected",
                          ![j].err = IF outcome = "posted" THEN "" ELSE ThrownMessage(outcome)]
    /\ listeners' = IF outcome = "throwsBeforeListen" THEN listeners ELSE listeners \cup {j}
    /\ searching' = IF outcome = "posted" THEN searching \cup {j} ELSE searching

\* Mutant of PumpReturns: the busy test is missing.
PumpReturnsWhenEmpty(q, b) == q = <<>>

\* server.js:62
PumpReturns(q, b) == b \/ q = <<>>

\* Engine faults so far: executors that threw, searches that stalled.
FaultCount ==
    Cardinality({j \in DOMAIN jobs : jobs[j].st \in {"fnRejected", "rejected"}})
    + Cardinality(hung)
MayFault == FaultCount < MaxFaults
AllowedOutcomes == IF MayFault THEN ExecutorOutcomes ELSE {"posted"}

\* Mutant of Shift: queue.pop() in place of queue.shift().
ShiftNewest(q) == [entry |-> q[Len(q)], rest |-> SubSeq(q, 1, Len(q) - 1)]

\* server.js:64  queue.shift(): the entry taken and what is left
Shift(q) == [entry |-> Head(q), rest |-> Tail(q)]

\* server.js:61-65 up to the await: q, b, js are queue, busy and the job
\* table as the caller left them.
pump(q, b, js) ==
    IF PumpReturns(q, b)
    THEN /\ queue' = q
         /\ busy' = b
         /\ jobs' = js
         /\ UNCHANGED <<listeners, searching, startLog>>
    ELSE /\ busy' = TRUE
         /\ queue' = Shift(q).rest
         /\ startLog' = Append(startLog, Shift(q).entry)
         /\ \E outcome \in AllowedOutcomes : CallFn(Shift(q).entry, js, outcome)

\* Mutant of enqueue: the entry is pushed and pump is not called.
enqueueWithoutPump(job) ==
    /\ queue' = Append(queue, Len(jobs) + 1)
    /\ jobs' = Append(jobs, job)
    /\ UNCHANGED <<busy, listeners, searching, startLog>>

\* server.js:55-60
enqueue(job) ==
    pump(Append(queue, Len(jobs) + 1), busy, Append(jobs, job))

\* server.js:65  res(await fn()) / catch (e) { rej(e) }: the state of the
\* future once fn's promise has settled as st
FutureAfter(st) == IF st = "fnResolved" THEN "resolved" ELSE "rejected"

\* Mutant of BusyAfter: busy is cleared on the success path only.
BusyAfterSuccessOnly(st) == st = "fnRejected"

\* server.js:65  finally { busy = false; ... }: busy after fn's promise has
\* settled as st
BusyAfter(st) == FALSE

\* server.js:65 after the await: the future of j settles, busy is cleared
\* and pump runs again.
PumpResume(j) ==
    /\ j \in DOMAIN jobs
    /\ jobs[j].st \in {"fnResolved", "fnRejected"}
    /\ settleLog' = Append(settleLog, j)
    /\ pump(queue, BusyAfter(jobs[j].st), [jobs EXCEPT ![j].st = FutureAfter(jobs[j].st)])
    /\ UNCHANGED <<hung, evalCache, coachModel, h>>

\* server.js:144-161: the engine's bestmove line reaches every listener
\* attached; each detaches itself and resolves its own promise (a no-op on
\* a promise that is settled already).
EngineBestmove(j, out) ==
    /\ j \in searching \ hung
    /\ ~MicrotaskPending
    /\ searching' = searching \ {j}
    /\ listeners' = {}
    /\ jobs' = [k \in DOMAIN jobs |->
                  IF k \in listeners /\ jobs[k].st = "running"
                  THEN [jobs[k] EXCEPT !.st = "fnResolved", !.out = out]
                  ELSE jobs[k]]
    /\ UNCHANGED <<queue, busy, hung, evalCache, coachModel, h, startLog, settleLog>>

\* An "info ..." line of the engine: multipv is the number after "multipv"
\* (0 when the line has no such tag), score what follows "score" (mate n,
\* cp n, or nothing).
InfoLine(mv, score) == [multipv |-> mv, score |-> score]
NoScore == [type |-> "none", value |-> 0]

\* Map.prototype.set: a key that is there keeps its place and gets the new
\* value, a new key goes to the end
MapSet(m, key, value) ==
    IF \E k \in DOMAIN m : m[k].key = key
    THEN [k \in DOMAIN m |-> IF m[k].key = key THEN [key |-> key, value |-> value] ELSE m[k]]
    ELSE Append(m, [key |-> key, value |-> value])

\* server.js:141-143
OnInfo(m, line) == IF line.multipv # 0 THEN MapSet(m, line.multipv, line) ELSE m

\* Mutant of SortByRank: the entries stay in insertion order.
SortByRankMissing(m) == m

RECURSIVE SortByRank(_)
\* server.js:149  .sort((a, b) => a[0] - b[0]) on entries of distinct keys
SortByRank(m) ==
    IF m = <<>> THEN <<>>
    ELSE LET least == CHOOSE k \in DOMAIN m : \A i \in DOMAIN m : m[k].key <= m[i].key
         IN  <<m[least]>> \o SortByRank(SelectSeq(m, LAMBDA e : e.key # m[least].key))

\* server.js:152-157
ScoreOfLine(line) ==
    IF line.score.type = "mate" THEN MateScore(line.score.value)
    ELSE CpScore(IF line.score.type = "cp" THEN line.score.value ELSE 0)

\* server.js:148-159
CandidatesOf(m) ==
    LET sorted == SortByRank(m)
    IN  [k \in DOMAIN sorted |-> Candidate(sorted[k].key, ScoreOfLine(sorted[k].value))]

\* server.js:139-143: an info line of the search of j reaches every listener
\* attached.
EngineInfo(j, line) ==
    /\ j \in searching \ hung
    /\ ~MicrotaskPending
    /\ jobs' = [k \in DOMAIN jobs |->
                  LET heard == IF k \in listeners
                               THEN [jobs[k] EXCEPT !.lines = OnInfo(jobs[k].lines, line)]
                               ELSE jobs[k]
                  IN  IF k = j THEN [heard EXCEPT !.sent = Append(jobs[k].sent, line)] ELSE heard]
    /\ UNCHANGED <<queue, busy, listeners, searching, hung, evalCache, coachModel, h,
                   startLog, settleLog>>

\* server.js:144-161: the bestmove line of the search of j reaches every
\* listener attached; each detaches itself and resolves its promise with
\* the candidates of the lines it has heard.
EngineBestmoveLine(j, bestmove) ==
    /\ j \in searching \ hung
    /\ ~MicrotaskPending
    /\ searching' = searching \ {j}
    /\ listeners' = {}
    /\ jobs' = [k \in DOMAIN jobs |->
                  IF k \in listeners /\ jobs[k].st = "running"
                  THEN [jobs[k] EXCEPT !.st = "fnResolved",
                                       !.out = [bestmove |-> bestmove,
                                                candidates |-> CandidatesOf(jobs[k].lines)]]
                  ELSE jobs[k]]
    /\ UNCHANGED <<queue, busy, hung, evalCache, coachModel, h, startLog, settleLog>>

\* The engine session stalls: no bestmove line will come for j.
EngineHangs(j) ==
    /\ j \in searching \ hung
    /\ MayFault
    /\ ~MicrotaskPending
    /\ hung' = hung \cup {j}
    /\ UNCHANGED <<queue, busy, jobs, listeners, searching, evalCache, coachModel,
                   h, startLog, settleLog>>

-----------------------------------------------------------------------------
(* Evaluation cache (server.js:69, 173-179) and scoring                    *)

\* new LRUCache({ max: 10_000 })
CacheMax == 10000

\* Mutant of CacheHas: the lookup never hits.
CacheHasNever(cache, key) == FALSE

CacheHas(cache, key) == \E k \in DOMAIN cache : cache[k].key = key
CacheIndex(cache, key) == CHOOSE k \in DOMAIN cache : cache[k].key = key
\* get: the value, and the entry becomes the most recently used one
CacheValue(cache, key) == cache[CacheIndex(cache, key)].value
CacheWithout(cache, key) == SelectSeq(cache, LAMBDA e : e.key # key)
CacheGet(cache, key) ==
    Append(CacheWithout(cache, key), [key |-> key, value |-> CacheValue(cache, key)])
\* Mutant of CacheSet: the result is not stored.
CacheSetDropped(cache, key, value) == cache

\* set: insert or overwrite as most recently used, evicting the least
\* recently used entry beyond max
CacheSet(cache, key, value) ==
    LET put == Append(CacheWithout(cache, key), [key |-> key, value |-> value])
    IN  IF Len(put) > CacheMax THEN Tail(put) ELSE put

CachedKeys == {evalCache[k].key : k \in DOMAIN evalCache}

\* server.js:128-132; the score of candidates?.[0], or no score at all
TopScore(out) ==
    IF Len(out.candidates) = 0 THEN [type |-> "none", value |-> 0]
    ELSE out.candidates[1].score

\* Mutant of toCp: a mate distance of 0 counts as positive.
toCpZeroPositive(score) ==
    IF score.type = "none" THEN 0
    ELSE IF score.type = "mate" THEN (IF score.value >= 0 THEN 100000 ELSE -100000)
    ELSE score.value

\* Mutant of toCp: a missing score counts as a lost mate.
toCpMissingAsMate(score) ==
    IF score.type = "none" THEN -100000
    ELSE IF score.type = "mate" THEN (IF score.value > 0 THEN 100000 ELSE -100000)
    ELSE score.value

toCp(score) ==
    IF score.type = "none" THEN 0
    ELSE IF score.type = "mate" THEN (IF score.value > 0 THEN 100000 ELSE -100000)
    ELSE score.value

Abs(x) == IF x < 0 THEN -x ELSE x

\* The argument of verdictFromDeltaCp: a number, or undefined / null
Delta(v) == [given |-> TRUE, value |-> v]
NoDelta == [given |-> FALSE, value |-> 0]

\* coach.js:23  deltaCp ?? 0
OrZero(deltaCp) == IF deltaCp.given THEN deltaCp.value ELSE 0

\* Mutant of verdictFromDeltaCp: Math.abs is missing.
verdictFromSignedDelta(deltaCp) ==
    LET d == OrZero(deltaCp)
    IN  IF d >= 200 THEN "Blunder"
        ELSE IF d >= 80 THEN "Mistake"
        ELSE IF d >= 30 THEN "Inaccuracy"
        ELSE "Okay"

\* coach.js:22-28
verdictFromDeltaCp(deltaCp) ==
    LET d == Abs(OrZero(deltaCp))
    IN  IF d >= 200 THEN "Blunder"
        ELSE IF d >= 80 THEN "Mistake"
        ELSE IF d >= 30 THEN "Inaccuracy"
        ELSE "Okay"

-----------------------------------------------------------------------------
(* Coach annotator (coach.js:30-55)                                        *)

Absent == "absent"

\* What model.generateContent can do: resolve with strict JSON, with JSON
\* inside a code fence, with text that is no JSON, or reject.
CoachReplies == {"json", "fenced", "garbage", "rejects"}

EmptyExtra == [note |-> Absent, better |-> Absent]

\* coach.js:30-34 on the text of a reply
safeParseJson(text) ==
    IF text \in {"json", "fenced"} THEN [note |-> "note", better |-> "better"]
    ELSE EmptyExtra

\* Mutant of explainBadMove: no try/catch around generateContent.
explainBadMoveUncaught(reply) ==
    IF reply = "rejects" THEN [rejected |-> TRUE, extra |-> EmptyExtra]
    ELSE [rejected |-> FALSE, extra |-> safeParseJson(reply)]

\* coach.js:45-54: how the promise of explainBadMove settles once the
\* model has answered
explainBadMove(reply) ==
    IF reply = "rejects" THEN [rejected |-> FALSE, extra |-> EmptyExtra]
    ELSE [rejected |-> FALSE, extra |-> safeParseJson(reply)]

\* Mutant of ExplainIsNoOp: the test of the model is missing.
ExplainIsNoOpOnOkay(verdict) == verdict = "Okay"

\* coach.js:39
ExplainIsNoOp(verdict) == ~coachModel \/ verdict = "Okay"

-----------------------------------------------------------------------------
(* HTTP handlers (server.js:198-300)                                       *)

ZeroSummary == [inaccuracies |-> 0, mistakes |-> 0, blunders |-> 0]
NoResp == [status |-> 0, error |-> "", moves |-> <<>>, summary |-> ZeroSummary,
           out |-> NoResult]

\* pc: "idle" before the request arrives, "received" when its body is parsed
\* and the route's callback is about to run, "awaitAnalyze", "awaitBefore",
\* "awaitAfter", "awaitCoach" at the handler's awaits, "done" once answered.
\* pgn is the body's pgn of a request that is "received".
\* wait is the job whose future the handler awaits, 0 when analyzeFenCached
\* returned the cached value got.  cause records which throw reached the
\* catch block.
IdleHandler ==
    [pc |-> "idle", kind |-> "none", depth |-> 16, multipv |-> 3,
     movetime |-> NoMovetime, withCoach |-> FALSE, moves |-> <<>>, i |-> 0,
     rows |-> <<>>, engBefore |-> NoResult, wait |-> 0, got |-> NoResult,
     key |-> <<>>, pending |-> <<>>, resp |-> NoResp, cause |-> "none",
     work |-> 0, pgn |-> NotAStringPgn]
ArrivedHandler == [IdleHandler EXCEPT !.work = 1]

NoEngineCall == UNCHANGED <<queue, busy, jobs, listeners, searching, startLog>>

\* Mutant of CountVerdict: the filter is missing.
CountVerdictUnfiltered(rows, v) == Len(rows)

CountVerdict(rows, v) == Cardinality({k \in DOMAIN rows : rows[k].verdict = v})

\* res.status(...).json(...): the handler is over
Respond(hd, r, resp, cache) ==
    /\ h' = [h EXCEPT ![hd] = [IdleHandler EXCEPT !.pc = "done", !.kind = r.kind,
                                                  !.resp = resp, !.cause = r.cause,
                                                  !.work = r.work, !.moves = r.moves,
                                                  !.withCoach = r.withCoach]]
    /\ evalCache' = cache
    /\ NoEngineCall

\* server.js:289-295
Report(hd, r, cache) ==
    Respond(hd, r,
            [NoResp EXCEPT !.status = 200, !.moves = r.rows,
                           !.summary = [inaccuracies |-> CountVerdict(r.rows, "Inaccuracy"),
                                        mistakes |-> CountVerdict(r.rows, "Mistake"),
                                        blunders |-> CountVerdict(r.rows, "Blunder")]],
            cache)

\* Mutant of Catch: the rows built so far are reported.
CatchReportsRows(hd, r, message, cause, cache) ==
    Report(hd, [r EXCEPT !.cause = cause], cache)

\* server.js:296-299
Catch(hd, r, message, cause, cache) ==
    Respond(hd, [r EXCEPT !.cause = cause],
            [NoResp EXCEPT !.status = 500,
                           !.error = IF message = "" THEN "analysis error" ELSE message],
            cache)

\* Mutant of analyzeFenCached: the candidate-line count passed is ignored
\* and the configured one used.
analyzeFenCachedConfigured(hd, r, fen, multipv, cache) ==
    LET key == CacheKey(fen, r.depth, r.multipv, r.movetime)
    IN  IF CacheHas(cache, key)
        THEN /\ h' = [h EXCEPT ![hd] = [r EXCEPT !.wait = 0, !.key = key,
                                                 !.got = CacheValue(cache, key)]]
             /\ evalCache' = CacheGet(cache, key)
             /\ NoEngineCall
        ELSE /\ h' = [h EXCEPT ![hd] = [r EXCEPT !.wait = Len(jobs) + 1, !.key = key,
                                                 !.got = NoResult]]
             /\ evalCache' = cache
             /\ enqueue(NewJob(hd, TRUE, fen, r.depth, r.multipv, r.movetime))

\* server.js:173-179 up to the await: a hit returns the stored value, a miss
\* submits analyzeFen through the queue.  cache is evalCache as the caller
\* left it.
analyzeFenCached(hd, r, fen, multipv, cache) ==
    LET key == CacheKey(fen, r.depth, multipv, r.movetime)
    IN  IF CacheHas(cache, key)
        THEN /\ h' = [h EXCEPT ![hd] = [r EXCEPT !.wait = 0, !.key = key,
                                                 !.got = CacheValue(cache, key)]]
             /\ evalCache' = CacheGet(cache, key)
             /\ NoEngineCall
        ELSE /\ h' = [h EXCEPT ![hd] = [r EXCEPT !.wait = Len(jobs) + 1, !.key = key,
                                                 !.got = NoResult]]
             /\ evalCache' = cache
             /\ enqueue(NewJob(hd, TRUE, fen, r.depth, multipv, r.movetime))

\* Mutant of LoopTop: the loop ends one ply early.
LoopTopOneShort(hd, r, cache) ==
    IF r.i + 1 < Len(r.moves)
    THEN analyzeFenCached(hd, [r EXCEPT !.pc = "awaitBefore"],
                          SubSeq(r.moves, 1, r.i), r.multipv, cache)
    ELSE Report(hd, r, cache)

\* server.js:232-241: the loop test and, for a further ply, the request for
\* the position before it
LoopTop(hd, r, cache) ==
    IF r.i < Len(r.moves)
    THEN analyzeFenCached(hd, [r EXCEPT !.pc = "awaitBefore"],
                          SubSeq(r.moves, 1, r.i), r.multipv, cache)
    ELSE Report(hd, r, cache)

\* server.js:285-286
PushRow(hd, r, row, cache) ==
    LoopTop(hd, [r EXCEPT !.rows = Append(r.rows, row), !.i = r.i + 1,
                          !.pending = <<>>, !.engBefore = NoResult], cache)

\* server.js:177: on a miss the result is stored once the future resolved
CacheAfterAwait(r) ==
    IF r.wait = 0 THEN evalCache ELSE CacheSet(evalCache, r.key, Awaited(r))

\* The next request takes the next free handler record.
RECURSIVE WorkUpTo(_)
WorkUpTo(n) == IF n = 0 THEN 0 ELSE h[n].work + WorkUpTo(n - 1)

\* A request counts for the evaluations it can ask for (one for /analyze,
\* two per ply of the game for /analyzeGame), and for one at least.
WithinWork(r) == WorkUpTo(NumHandlers) + r.work <= MaxWork

MayArrive(hd) ==
    /\ h[hd].pc = "idle"
    /\ \A k \in Handlers : k < hd => h[k].pc # "idle"
    /\ ~MicrotaskPending

\* server.js:198-203: POST /analyze
AnalyzeArrives(hd, fenGiven, depth, multipv) ==
    /\ MayArrive(hd)
    /\ WithinWork(ArrivedHandler)
    /\ LET r == [ArrivedHandler EXCEPT !.kind = "analyze", !.depth = depth,
                                    !.multipv = multipv]
       IN  IF ~fenGiven
           THEN Respond(hd, r, [NoResp EXCEPT !.status = 400, !.error = "fen required"],
                        evalCache)
           ELSE /\ h' = [h EXCEPT ![hd] = [r EXCEPT !.pc = "awaitAnalyze",
                                                    !.wait = Len(jobs) + 1]]
                /\ enqueue(NewJob(hd, FALSE, StartFen, depth, multipv, NoMovetime))
                /\ UNCHANGED evalCache
    /\ UNCHANGED <<hung, coachModel, settleLog>>

\* server.js:202-206
AnalyzeResumes(hd) ==
    /\ h[hd].pc = "awaitAnalyze"
    /\ AwaitOver(h[hd])
    /\ LET r == h[hd]
       IN  IF AwaitFailed(r)
           THEN Respond(hd, [r EXCEPT !.cause = "oracle"],
                        [NoResp EXCEPT !.status = 500,
                                       !.error = IF jobs[r.wait].err = "" THEN "engine error"
                                                 ELSE jobs[r.wait].err],
                        evalCache)
           ELSE Respond(hd, r, [NoResp EXCEPT !.status = 200, !.out = Awaited(r)], evalCache)
    /\ UNCHANGED <<hung, coachModel, settleLog>>

\* server.js:209-241: the callback of POST /analyzeGame up to its first
\* await
analyzeGame(hd, pgn, depth, multipv, movetime, withCoach) ==
    LET r == [h[hd] EXCEPT !.work = 1, !.kind = "analyzeGame", !.depth = depth,
                           !.multipv = multipv, !.movetime = movetime,
                           !.withCoach = withCoach]
    IN  IF ~pgn.isString \/ pgn.text = <<>>
        THEN Respond(hd, r, [NoResp EXCEPT !.status = 400,
                                           !.error = "pgn (string) required"], evalCache)
        ELSE LET game == parseGameLoose(pgn.text)
             IN  IF game.isNull
                 THEN Respond(hd, r, [NoResp EXCEPT !.status = 400,
                                                    !.error = "Invalid PGN after normalize"],
                              evalCache)
                 ELSE LoopTop(hd, [r EXCEPT !.moves = game.moves,
                                            !.work = 2 * Len(game.moves)], evalCache)

\* The evaluations the request with this pgn can ask for
GameWork(pgn) ==
    IF ~pgn.isString \/ pgn.text = <<>> \/ parseGameLoose(pgn.text).isNull THEN 1
    ELSE 2 * Len(parseGameLoose(pgn.text).moves)

\* POST /analyzeGame arrives and its callback runs
GameArrives(hd, pgn, depth, multipv, movetime, withCoach) ==
    /\ MayArrive(hd)
    /\ WithinWork(ArrivedHandler)
    /\ WithinWork([ArrivedHandler EXCEPT !.work = GameWork(pgn)])
    /\ analyzeGame(hd, pgn, depth, multipv, movetime, withCoach)
    /\ UNCHANGED <<hung, coachModel, settleLog>>

\* server.js:241-250: engBefore is there; replay the human move and ask for
\* the position after it.  tmp.move throws when the move does not apply.
BeforeResumes(hd, replayThrows) ==
    /\ h[hd].pc = "awaitBefore"
    /\ AwaitOver(h[hd])
    /\ LET r == h[hd]
       IN  IF AwaitFailed(r) THEN /\ Catch(hd, r, jobs[r.wait].err, "oracle", evalCache)
                                  /\ ~replayThrows
           ELSE IF replayThrows
           THEN Catch(hd, r, "Invalid move", "replay", CacheAfterAwait(r))
           ELSE analyzeFenCached(hd, [r EXCEPT !.pc = "awaitAfter", !.engBefore = Awaited(r)],
                                 SubSeq(r.moves, 1, r.i + 1), 1, CacheAfterAwait(r))
    /\ UNCHANGED <<hung, coachModel, settleLog>>

\* server.js:235-270: the row of the ply r.i + 1, before any coach note
Row(r, engAfter) ==
    LET fenBefore == SubSeq(r.moves, 1, r.i)
        evalBestCp == toCp(TopScore(r.engBefore))
        evalHumanCp == -toCp(TopScore(engAfter))
        deltaCp == evalBestCp - evalHumanCp
    IN  [ply |-> r.i + 1,
         side |-> IF Turn(fenBefore) = "w" THEN "white" ELSE "black",
         san |-> r.moves[r.i + 1],
         fenBefore |-> fenBefore,
         fenAfter |-> SubSeq(r.moves, 1, r.i + 1),
         bestmove |-> r.engBefore.bestmove,
         evalBestCp |-> evalBestCp,
         evalHumanCp |-> evalHumanCp,
         deltaCp |-> deltaCp,
         verdict |-> verdictFromDeltaCp(Delta(deltaCp)),
         note |-> Absent,
         better |-> Absent]

\* server.js:281-282
MergeExtra(row, extra) ==
    [row EXCEPT !.note = IF extra.note # Absent THEN extra.note ELSE row.note,
                !.better = IF extra.better # Absent THEN extra.better ELSE row.better]

\* server.js:250-287: engAfter is there; build the row, call the coach for a
\* weak move, else push the row and go on with the next ply
AfterResumes(hd) ==
    /\ h[hd].pc = "awaitAfter"
    /\ AwaitOver(h[hd])
    /\ LET r == h[hd]
           row == Row(r, Awaited(r))
       IN  IF AwaitFailed(r) THEN Catch(hd, r, jobs[r.wait].err, "oracle", evalCache)
           ELSE IF r.withCoach /\ row.verdict # "Okay" /\ ~ExplainIsNoOp(row.verdict)
           THEN /\ h' = [h EXCEPT ![hd] = [r EXCEPT !.pc = "awaitCoach", !.wait = 0,
                                                    !.got = NoResult, !.pending = <<row>>]]
                /\ evalCache' = CacheAfterAwait(r)
                /\ NoEngineCall
           ELSE PushRow(hd, r, MergeExtra(row, EmptyExtra), CacheAfterAwait(r))
    /\ UNCHANGED <<hung, coachModel, settleLog>>

\* server.js:274-287: explainBadMove has resolved
CoachAnswers(hd, reply) ==
    /\ h[hd].pc = "awaitCoach"
    /\ ~MicrotaskPending
    /\ LET extra == explainBadMove(reply)
       IN  IF extra.rejected
           THEN Catch(hd, h[hd], "model failure", "coach", evalCache)
           ELSE PushRow(hd, h[hd], MergeExtra(h[hd].pending[1], extra.extra), evalCache)
    /\ UNCHANGED <<hung, coachModel, settleLog>>

-----------------------------------------------------------------------------
(* Presentation layer (frontend/app/page.tsx)                              *)

Scopes == {"both", "white", "black"}

\* page.tsx:366
InScope(moves, scope) == SelectSeq(moves, LAMBDA m : scope = "both" \/ m.side = scope)

\* page.tsx:365-372
summarizeMoves(moves, scope) ==
    LET filtered == InScope(moves, scope)
    IN  [greatBest |-> Len(SelectSeq(filtered, LAMBDA m : m.verdict = "Great" \/ m.verdict = "Good")),
         inaccuracies |-> Len(SelectSeq(filtered, LAMBDA m : m.verdict = "Inaccuracy")),
         mistakes |-> Len(SelectSeq(filtered, LAMBDA m : m.verdict = "Mistake")),
         blunders |-> Len(SelectSeq(filtered, LAMBDA m : m.verdict = "Blunder"))]

\* page.tsx:420-426
verdictTone(v) ==
    IF v = "Great" THEN "emerald"
    ELSE IF v = "Good" THEN "cyan"
    ELSE IF v = "Inaccuracy" THEN "amber"
    ELSE IF v = "Mistake" THEN "orange"
    ELSE "red"

\* page.tsx:321-331: the tone and the headline of the advice on a move
Advice(move) ==
    LET good == move.verdict = "Great" \/ move.verdict = "Good"
    IN  [good |-> good,
         tone |-> IF good THEN "emerald" ELSE verdictTone(move.verdict),
         headline |-> IF good THEN "Nice move!" ELSE "That was an ..."]

-----------------------------------------------------------------------------
(* Specifications                                                          *)

InitServer ==
    /\ queue = <<>>
    /\ busy = FALSE
    /\ jobs = <<>>
    /\ listeners = {}
    /\ searching = {}
    /\ hung = {}
    /\ evalCache = <<>>
    /\ h = [hd \in Handlers |-> IdleHandler]
    /\ startLog = <<>>
    /\ settleLog = <<>>

\* Steps of the queue and of the engine session
QueueNext ==
    \/ \E j \in DOMAIN jobs : PumpResume(j)
    \/ \E j \in DOMAIN jobs, out \in EngineResults : EngineBestmove(j, out)
    \/ \E j \in DOMAIN jobs : EngineHangs(j)

\* Steps of handlers that are past their first await
HandlerNext ==
    \/ \E hd \in Handlers : AnalyzeResumes(hd)
    \/ \E hd \in Handlers, replayThrows \in BOOLEAN : BeforeResumes(hd, replayThrows)
    \/ \E hd \in Handlers : AfterResumes(hd)

\* Spec: requests arrive at any time, also while earlier ones are being
\* served; coach annotation is left at its default (off) and no Gemini key
\* is configured.
Init == InitServer /\ coachModel = FALSE

Next ==
    \/ \E hd \in Handlers, fenGiven \in BOOLEAN, depth \in Depths :
           AnalyzeArrives(hd, fenGiven, depth, 3)
    \/ \E hd \in Handlers, pgn \in Movetexts, depth \in Depths, multipv \in MultiPVs,
          movetime \in Movetimes :
           GameArrives(hd, pgn, depth, multipv, movetime, FALSE)
    \/ HandlerNext
    \/ QueueNext

Spec == Init /\ [][Next]_vars

\* FairSpec: Spec, where a continuation that can run does run, and the
\* engine answers every search that has not stalled.
FairSpec ==
    /\ Spec
    /\ WF_vars(HandlerNext)
    /\ WF_vars(\E j \in DOMAIN jobs : PumpResume(j))
    /\ WF_vars(\E j \in DOMAIN jobs, out \in EngineResults : EngineBestmove(j, out))

\* QueueSpec: /analyze requests only, each one enqueue call, arriving at any
\* time; QueueFairSpec adds that a continuation that can run does run and
\* that the engine answers every search that has not stalled.
QueueSpecNext ==
    \/ \E hd \in Handlers, fenGiven \in BOOLEAN, depth \in Depths :
           AnalyzeArrives(hd, fenGiven, depth, 3)
    \/ \E hd \in Handlers : AnalyzeResumes(hd)
    \/ QueueNext

QueueSpec == Init /\ [][QueueSpecNext]_vars

QueueFairSpec ==
    /\ QueueSpec
    /\ WF_vars(\E hd \in Handlers : AnalyzeResumes(hd))
    /\ WF_vars(\E j \in DOMAIN jobs : PumpResume(j))
    /\ WF_vars(\E j \in DOMAIN jobs, out \in EngineResults : EngineBestmove(j, out))

\* CoachSpec: one /analyzeGame request at a time, with or without coach
\* annotation, with or without a configured Gemini model.
NoneActive == \A hd \in Handlers : h[hd].pc \in {"idle", "done"}

CoachInit == InitServer /\ coachModel \in BOOLEAN

CoachNext ==
    \/ /\ NoneActive
       /\ \E hd \in Handlers, pgn \in Movetexts, depth \in Depths,
             movetime \in Movetimes, withCoach \in BOOLEAN :
              GameArrives(hd, pgn, depth, 3, movetime, withCoach)
    \/ \E hd \in Handlers, reply \in CoachReplies : CoachAnswers(hd, reply)
    \/ \E hd \in Handlers, replayThrows \in BOOLEAN : BeforeResumes(hd, replayThrows)
    \/ \E hd \in Handlers : AfterResumes(hd)
    \/ QueueNext

CoachSpec == CoachInit /\ [][CoachNext]_vars

\* RowSpec: one /analyzeGame request, the engine answering with centipawn
\* and mate scores of either sign.
ScoreResults ==
    { [bestmove |-> "a", candidates |-> <<Candidate(1, CpScore(0))>>],
      [bestmove |-> "c", candidates |-> <<Candidate(1, CpScore(-50))>>],
      [bestmove |-> "d", candidates |-> <<Candidate(1, CpScore(-100))>>],
      [bestmove |-> "e", candidates |-> <<Candidate(1, MateScore(2))>>],
      [bestmove |-> "f", candidates |-> <<Candidate(1, MateScore(0))>>] }

RowArrives(pgn, multipv) ==
    /\ \A hd \in Handlers : h[hd].pc = "idle"
    /\ analyzeGame(1, pgn, 16, multipv, NoMovetime, FALSE)
    /\ UNCHANGED <<hung, coachModel, settleLog>>

RowNext ==
    \/ \E n \in 1..MaxPly, multipv \in MultiPVs : RowArrives(StringPgn(Numbered(n, 1)), multipv)
    \/ \E hd \in Handlers : BeforeResumes(hd, FALSE)
    \/ \E hd \in Handlers : AfterResumes(hd)
    \/ \E j \in DOMAIN jobs : PumpResume(j)
    \/ \E j \in DOMAIN jobs, out \in ScoreResults : EngineBestmove(j, out)

RowSpec == Init /\ [][RowNext]_vars

\* VerdictSpec: the handler of the game 1. e4 is about to resume with both
\* evaluations resolved, the engine having scored the position before the
\* move at any value up to MaxCp either way and the one after it at 0.
MaxCp == 250

CpResult(v) == [bestmove |-> "a", candidates |-> <<Candidate(1, CpScore(v))>>]

VerdictInit ==
    \E x \in (0 - MaxCp)..MaxCp :
        /\ jobs = <<[NewJob(1, TRUE, StartFen, 16, 3, NoMovetime)
                        EXCEPT !.st = "resolved", !.out = CpResult(x)],
                    [NewJob(1, TRUE, <<"e4">>, 16, 1, NoMovetime)
                        EXCEPT !.st = "resolved", !.out = CpResult(0)]>>
        /\ queue = <<>>
        /\ busy = FALSE
        /\ listeners = {}
        /\ searching = {}
        /\ hung = {}
        /\ evalCache = <<[key |-> CacheKey(StartFen, 16, 3, NoMovetime), value |-> CpResult(x)]>>
        /\ coachModel = FALSE
        /\ h = [hd \in Handlers |->
                  IF hd = 1
                  THEN [IdleHandler EXCEPT !.pc = "awaitAfter", !.kind = "analyzeGame",
                                           !.moves = <<"e4">>, !.engBefore = CpResult(x),
                                           !.wait = 2, !.work = 2,
                                           !.key = CacheKey(<<"e4">>, 16, 1, NoMovetime)]
                  ELSE IdleHandler]
        /\ startLog = <<1, 2>>
        /\ settleLog = <<1, 2>>

VerdictNext == \E hd \in Handlers : AfterResumes(hd)

VerdictSpec == VerdictInit /\ [][VerdictNext]_vars

\* ParseSpec: one /analyzeGame request has been received; its pgn is any
\* text of up to MaxTokens lexemes, or a game decorated with a comment, a
\* variation, a NAG, a non-breaking space or castling written with zeros.
MaxTokens == 3
ParseAlphabet == {"1.", "1...", "e4", "e5", "zz", "1-0", Star}

TokenTexts == UNION {[1..n -> ParseAlphabet] : n \in 1..MaxTokens}

Decorations ==
    { <<"{", "e5", "}">>, <<"{c}">>, <<"(", "1.", "Nf3", ")">>, <<"(v)">>, <<"$1">>,
      <<"nbsp">>, <<"0_0">>, <<"0-0">>,
      <<"(", "Nf3", "(", "zz", ")", "1...", "Nc6", ")">> }

\* What a decoration stands for in clean movetext
CleanOf(d) == IF d \in {<<"0_0">>, <<"0-0">>} THEN <<"O-O">> ELSE <<>>

RECURSIVE NumberedWith(_, _, _, _)
\* Numbered(n, k) with the lexemes d put in after ply pos (before the first
\* ply for pos = 0)
NumberedWith(n, k, d, pos) ==
    IF k > n THEN <<>>
    ELSE (IF k % 2 = 1 THEN <<MoveNumberAt[(k + 1) \div 2]>> ELSE <<>>)
         \o <<Line[k]>> \o (IF k = pos THEN d ELSE <<>>) \o NumberedWith(n, k + 1, d, pos)

Decorated(n, d, pos) == (IF pos = 0 THEN d ELSE <<>>) \o NumberedWith(n, 1, d, pos)

DecoratedTexts == {Decorated(n, d, pos) : n \in 1..MaxPly, d \in Decorations, pos \in 0..MaxPly}

ParseBodies ==
    {NotAStringPgn, StringPgn(<<>>)} \cup {StringPgn(t) : t \in TokenTexts \cup DecoratedTexts}

ParseInit ==
    /\ queue = <<>>
    /\ busy = FALSE
    /\ jobs = <<>>
    /\ listeners = {}
    /\ searching = {}
    /\ hung = {}
    /\ evalCache = <<>>
    /\ startLog = <<>>
    /\ settleLog = <<>>
    /\ coachModel = FALSE
    /\ \E pgn \in ParseBodies :
           h = [hd \in Handlers |->
                   IF hd = 1 THEN [IdleHandler EXCEPT !.pc = "received", !.pgn = pgn]
                   ELSE IdleHandler]

\* server.js:209-241: the callback runs on the request received
GameReceived(hd) ==
    /\ h[hd].pc = "received"
    /\ analyzeGame(hd, h[hd].pgn, 16, 3, NoMovetime, FALSE)
    /\ UNCHANGED <<hung, coachModel, settleLog>>

ParseNext == \E hd \in Handlers : GameReceived(hd)

ParseSpec == ParseInit /\ [][ParseNext]_vars

\* LineSpec: /analyze requests, the engine emitting up to MaxInfo info lines
\* in all before the bestmove line of a search; a postMessage may throw.
MaxInfo == 3

InfoLines ==
    { InfoLine(0, CpScore(10)), InfoLine(1, CpScore(20)),
      InfoLine(2, MateScore(1)), InfoLine(2, NoScore) }

RECURSIVE InfoSentUpTo(_)
InfoSentUpTo(n) == IF n = 0 THEN 0 ELSE Len(jobs[n].sent) + InfoSentUpTo(n - 1)

LineNext ==
    \/ \E hd \in Handlers, fenGiven \in BOOLEAN : AnalyzeArrives(hd, fenGiven, 16, 3)
    \/ \E hd \in Handlers : AnalyzeResumes(hd)
    \/ \E j \in DOMAIN jobs : PumpResume(j)
    \/ \E j \in DOMAIN jobs, line \in InfoLines :
           InfoSentUpTo(Len(jobs)) < MaxInfo /\ EngineInfo(j, line)
    \/ \E j \in DOMAIN jobs : EngineBestmoveLine(j, "a")

LineSpec == Init /\ [][LineNext]_vars

\* OverSpec: one /analyzeGame request; the engine answers a search with
\* "bestmove (none)" alone or after score lines without a multipv tag (as
\* for a position where the game is over), or with a move after lines of
\* which one at least has the tag.
OverLines == {InfoLine(0, MateScore(0)), InfoLine(1, CpScore(-100))}

OverNext ==
    \/ \E n \in 1..MaxPly, multipv \in MultiPVs : RowArrives(StringPgn(Numbered(n, 1)), multipv)
    \/ \E hd \in Handlers : BeforeResumes(hd, FALSE)
    \/ \E hd \in Handlers : AfterResumes(hd)
    \/ \E j \in DOMAIN jobs : PumpResume(j)
    \/ \E j \in DOMAIN jobs, line \in OverLines :
           InfoSentUpTo(Len(jobs)) < MaxInfo /\ EngineInfo(j, line)
    \/ \E j \in DOMAIN jobs :
           EngineBestmoveLine(j, IF \E k \in DOMAIN jobs[j].sent : jobs[j].sent[k].multipv # 0
                                 THEN "a" ELSE "(none)")

OverSpec == Init /\ [][OverNext]_vars

\* KeySpec: analyzeFenCached called for one evaluation request after the
\* other, the engine answering each before the next call.  The answer
\* stored carries the request it was computed for.
KeyMaxEntries == 4
KeyRequests ==
    [fen : {StartFen}, depth : {1, 16}, multipv : {3, 63}, movetime : {NoMovetime, 0, 500}]

KeyOf(req) == CacheKey(req.fen, req.depth, req.multipv, req.movetime)

\* server.js:169  the go command: movetime ? `go movetime ...` : `go depth ...`
GoCommand(req) ==
    IF req.movetime \in {NoMovetime, 0} THEN <<"depth", req.depth>>
    ELSE <<"movetime", req.movetime>>

\* server.js:175
KeyHit(req) ==
    /\ CacheHas(evalCache, KeyOf(req))
    /\ evalCache' = CacheGet(evalCache, KeyOf(req))
    /\ UNCHANGED <<queue, busy, jobs, listeners, searching, hung, coachModel, h,
                   startLog, settleLog>>

\* server.js:176-177
KeyMiss(req, out) ==
    /\ ~CacheHas(evalCache, KeyOf(req))
    /\ Len(evalCache) < KeyMaxEntries
    /\ evalCache' = CacheSet(evalCache, KeyOf(req), [out |-> out, for |-> req])
    /\ UNCHANGED <<queue, busy, jobs, listeners, searching, hung, coachModel, h,
                   startLog, settleLog>>

KeyNext ==
    \/ \E req \in KeyRequests : KeyHit(req)
    \/ \E req \in KeyRequests, out \in {r \in EngineResults : r.bestmove = "a"} :
           KeyMiss(req, out)

KeySpec == Init /\ [][KeyNext]_vars

\* RerunSpec: the same game is submitted again and again with the default
\* configuration.  The first two requests may overlap; every later one
\* arrives when all the requests before it have been answered.
RerunArrives(hd, plies) ==
    /\ MayArrive(hd)
    /\ hd > 2 => \A k \in Handlers : k < hd => h[k].pc = "done"
    /\ hd > 1 => plies = Len(h[1].moves)
    /\ analyzeGame(hd, StringPgn(Numbered(plies, 1)), 16, 3, NoMovetime, FALSE)
    /\ UNCHANGED <<hung, coachModel, settleLog>>

RerunNext ==
    \/ \E hd \in Handlers, plies \in 1..MaxPly : RerunArrives(hd, plies)
    \/ \E hd \in Handlers : BeforeResumes(hd, FALSE)
    \/ \E hd \in Handlers : AfterResumes(hd)
    \/ \E j \in DOMAIN jobs : PumpResume(j)
    \/ \E j \in DOMAIN jobs, out \in EngineResults : EngineBestmove(j, out)

RerunSpec == Init /\ [][RerunNext]_vars

-----------------------------------------------------------------------------
(* Claims                                                                  *)

JobIds == 1..MaxWork
Started == SeqRange(startLog)
JobsOf(hd) == {j \in DOMAIN jobs : jobs[j].owner = hd}
AtAwait(r) == r.pc \in {"awaitBefore", "awaitAfter"}

\* C1: at every instant at most one function submitted through enqueue is
\* executing against the engine, whatever the interleaving of enqueue calls
\* and completions: fn of at most one job has been called and not been
\* resumed from, and the engine has at most one search to answer.
C1_SingleFlight ==
    /\ Cardinality(InFlight) <= 1
    /\ Cardinality(searching) <= 1

\* Two requests wait behind the one in flight: pump was invoked by their
\* enqueue calls while it was draining.
C1_Witness ==
    /\ Len(queue) >= 2
    /\ Cardinality(InFlight) = 1
    /\ busy

\* C2: requests start executing in exactly their submission order and
\* their futures settle in that same order (jobs are numbered in submission
\* order).
C2_Fifo ==
    /\ \A k \in DOMAIN startLog : startLog[k] = k
    /\ \A k \in DOMAIN settleLog : settleLog[k] = k

\* One request has settled, a later one is started and a third one waits.
C2_Witness ==
    /\ Len(settleLog) >= 1
    /\ Len(startLog) >= 2
    /\ Len(queue) >= 1

\* C3: when a request's promise has rejected, its future is rejected with
\* that error, the busy flag is cleared (busy is set only while a request
\* is in flight), and the requests queued behind it are not blocked: pump
\* has started the next one whenever one waits.
C3_FailureDoesNotBlock ==
    \A j \in DOMAIN jobs :
        jobs[j].st = "rejected" =>
            /\ j \in SeqRange(settleLog)
            /\ busy <=> InFlight # {}
            /\ queue # <<>> => InFlight # {}
            /\ \A k \in DOMAIN jobs : k < j => Settled(k)

\* A request failed and one queued behind it has been settled since.
C3_Witness ==
    \E j, k \in DOMAIN jobs : j < k /\ jobs[j].st = "rejected" /\ jobs[k].st = "resolved"

\* C4: if the engine never emits bestmove for the request in flight, that
\* request's future is rejected instead of staying pending for ever.
C4_StalledRequestFails ==
    \A j \in JobIds : (j \in hung) ~> (j \in DOMAIN jobs /\ jobs[j].st = "rejected")

\* C5 as stated: the engine evaluates each distinct key at most once for
\* analyzeFenCached calls, no entry being evicted.
C5_AtMostOnePerKey ==
    \A i, j \in Started :
        (jobs[i].cached /\ jobs[j].cached /\ JobKeyOf(jobs[i]) = JobKeyOf(jobs[j])) => i = j

\* C5 amended: analyzeFenCached submits an evaluation of a key only while no
\* result is stored under that key; calls that miss before the first result
\* is stored each submit their own.
C5_NoEvaluationOnceStored ==
    [][\A j \in DOMAIN jobs' :
          (j \notin DOMAIN jobs /\ jobs'[j].cached) =>
              \A k \in DOMAIN evalCache' : evalCache'[k].key # JobKeyOf(jobs'[j])]_vars

\* Two handlers have missed on the same key and both evaluations have run;
\* the key is stored.
C5_Witness ==
    \E i, j \in Started :
        /\ i # j
        /\ jobs[i].cached /\ jobs[j].cached
        /\ JobKeyOf(jobs[i]) = JobKeyOf(jobs[j])
        /\ CacheHas(evalCache, JobKeyOf(jobs[i]))

\* The handler hd calls analyzeFenCached in this step.
CallsCached(hd) == h'[hd] # h[hd] /\ AtAwait(h'[hd])

\* The handler hd resumes in this step from an analyzeFenCached call that
\* missed and whose evaluation resolved.
ResumesFromMiss(hd) ==
    /\ h'[hd] # h[hd]
    /\ AtAwait(h[hd])
    /\ h[hd].wait # 0
    /\ jobs[h[hd].wait].st = "resolved"

C6_Call(hd) ==
    LET r == h'[hd]
    IN  IF \E k \in DOMAIN evalCache' : evalCache'[k].key = r.key
        THEN /\ r.wait = 0
             /\ r.got = CacheValue(evalCache', r.key)
             /\ UNCHANGED <<queue, busy, jobs, listeners, searching, startLog>>
        ELSE /\ Len(jobs') = Len(jobs) + 1
             /\ r.wait = Len(jobs')
             /\ jobs'[r.wait].cached
             /\ jobs'[r.wait].owner = hd
             /\ JobKeyOf(jobs'[r.wait]) = r.key
             /\ \A j \in DOMAIN jobs : jobs'[j].st = "queued" <=> jobs[j].st = "queued"

C6_Resume(hd) ==
    LET r == h[hd]
    IN  /\ \E k \in DOMAIN evalCache' : /\ evalCache'[k].key = r.key
                                        /\ evalCache'[k].value = jobs[r.wait].out
        /\ h'[hd].pc = "awaitAfter" => h'[hd].engBefore = jobs[r.wait].out

\* C6: analyzeFenCached called with a key that is stored returns the stored
\* result and neither submits to the queue nor makes the engine start
\* anything; on a miss it submits exactly one request, of that key, and once
\* it resolved stores its result under the key and returns that result.
C6_HitAndMiss ==
    [][\A hd \in Handlers :
          /\ CallsCached(hd) => C6_Call(hd)
          /\ ResumesFromMiss(hd) => C6_Resume(hd)]_vars

\* A call has hit on a key that an earlier miss stored.
C6_Witness ==
    \E hd \in Handlers :
        /\ AtAwait(h[hd])
        /\ h[hd].wait = 0
        /\ CacheHas(evalCache, h[hd].key)
        /\ h[hd].got = CacheValue(evalCache, h[hd].key)
        /\ \E j \in DOMAIN jobs : /\ jobs[j].st = "resolved"
                                  /\ jobs[j].cached
                                  /\ JobKeyOf(jobs[j]) = h[hd].key
                                  /\ jobs[j].out = h[hd].got

FailedOnOracle(hd) ==
    h[hd].kind = "analyzeGame" /\ h[hd].pc = "done" /\ h[hd].cause = "oracle"

\* C7: when an evaluation fails while /analyzeGame processes a ply, the
\* answer is a request-level error without rows, and the failed evaluation
\* is the last one the request ever submits.
C7_NoPartialReport ==
    \A hd \in Handlers :
        /\ FailedOnOracle(hd) =>
               /\ h[hd].resp.status = 500
               /\ h[hd].resp.moves = <<>>
               /\ h[hd].resp.error # ""
               /\ \E j \in JobsOf(hd) : /\ jobs[j].st = "rejected"
                                        /\ \A k \in JobsOf(hd) : k <= j
        /\ (h[hd].kind = "analyzeGame" /\ \E j \in JobsOf(hd) : jobs[j].st = "rejected") =>
               /\ h[hd].resp.status # 200
               /\ \A j, k \in JobsOf(hd) : jobs[j].st = "rejected" => k <= j

\* The evaluation for the position before the second ply has failed: the
\* first ply's row had been built.
C7_Witness ==
    \E hd \in Handlers :
        /\ FailedOnOracle(hd)
        /\ Len(h[hd].moves) = 2
        /\ Cardinality(JobsOf(hd)) = 3

\* C8: /analyzeGame never answers with a successful report of zero rows.
C8_NoEmptyReport ==
    \A hd \in Handlers :
        (h[hd].kind = "analyzeGame" /\ h[hd].pc = "done" /\ h[hd].resp.status = 200) =>
            Len(h[hd].resp.moves) >= 1

\* C9: the answer to a request aborted by a replay failure is of another
\* error category (HTTP status) than the answer to one aborted by an oracle
\* failure.
C9_ReplayDistinctFromOracle ==
    \A a, b \in Handlers :
        (/\ h[a].kind = "analyzeGame" /\ h[a].pc = "done" /\ h[a].cause = "replay"
         /\ FailedOnOracle(b)) =>
            h[a].resp.status # h[b].resp.status

\* C10: explainBadMove never rejects and gives the empty result when the
\* model call fails or its text is no JSON; so no /analyzeGame request is
\* aborted by the coach, and a request that is answered with a report has a
\* row for every ply.
C10_CoachNeverAborts ==
    /\ \A reply \in CoachReplies : ~explainBadMove(reply).rejected
    /\ \A reply \in {"garbage", "rejects"} : explainBadMove(reply).extra = EmptyExtra
    /\ \A hd \in Handlers :
          (h[hd].kind = "analyzeGame" /\ h[hd].pc = "done") =>
              /\ h[hd].cause \in {"none", "oracle", "replay"}
              /\ h[hd].resp.status = 500 <=> h[hd].cause # "none"
              /\ h[hd].resp.status = 200 => Len(h[hd].resp.moves) = Len(h[hd].moves)

\* A request with withCoach = true is answered with a row per ply, the
\* coach having failed on a weak move (no note) with a model configured.
C10_Witness ==
    \E hd \in Handlers :
        /\ coachModel
        /\ h[hd].pc = "done"
        /\ h[hd].withCoach
        /\ h[hd].resp.status = 200
        /\ Len(h[hd].resp.moves) = Len(h[hd].moves)
        /\ \E k \in DOMAIN h[hd].resp.moves :
              /\ h[hd].resp.moves[k].verdict # "Okay"
              /\ h[hd].resp.moves[k].note = Absent

Reported(hd) ==
    h[hd].kind = "analyzeGame" /\ h[hd].pc = "done" /\ h[hd].resp.status = 200

\* C11: a request for the same game with the same configuration that
\* arrives after an earlier one was answered with a report is answered with
\* the identical report.  (Under RerunSpec every request after the second
\* arrives when all earlier ones are answered, nothing is evicted and coach
\* annotation is off.)
C11_RerunIdentical ==
    \A a, b \in Handlers :
        (a < b /\ b > 2 /\ Reported(a) /\ Reported(b)) => h[b].resp = h[a].resp

\* The time budget of a request: none when movetime is absent or 0
BudgetOf(req) == IF req.movetime = NoMovetime THEN 0 ELSE req.movetime

DiffersOnlyInDepth(p, q) ==
    p.depth # q.depth /\ p.fen = q.fen /\ p.multipv = q.multipv /\ BudgetOf(p) = BudgetOf(q)
DiffersOnlyInMultipv(p, q) ==
    p.multipv # q.multipv /\ p.fen = q.fen /\ p.depth = q.depth /\ BudgetOf(p) = BudgetOf(q)
DiffersOnlyInBudget(p, q) ==
    BudgetOf(p) # BudgetOf(q) /\ p.fen = q.fen /\ p.depth = q.depth /\ p.multipv = q.multipv

\* C12: a request that differs from the one an entry was stored for only in
\* depth, or only in candidate-line count, or only in time budget, has
\* another key than that entry: it is not answered from it.  A request that
\* has the entry's key asks the engine for the same search.
C12_DistinctKeys ==
    \A k \in DOMAIN evalCache, q \in KeyRequests :
        LET p == evalCache[k].value.for
        IN  /\ (DiffersOnlyInDepth(p, q) \/ DiffersOnlyInMultipv(p, q)
                    \/ DiffersOnlyInBudget(p, q)) =>
                   /\ KeyOf(q) # evalCache[k].key
                   /\ CacheHas(evalCache, KeyOf(q)) =>
                          CacheValue(evalCache, KeyOf(q)) # evalCache[k].value
            /\ KeyOf(q) = evalCache[k].key =>
                   /\ q.fen = p.fen /\ q.multipv = p.multipv
                   /\ GoCommand(q) = GoCommand(p)

\* Four entries: one request and the three that differ from it in depth
\* only, in candidate-line count only and in time budget only.
C12_Witness ==
    \E a, b, c, d \in DOMAIN evalCache :
        /\ DiffersOnlyInDepth(evalCache[a].value.for, evalCache[b].value.for)
        /\ DiffersOnlyInMultipv(evalCache[a].value.for, evalCache[c].value.for)
        /\ DiffersOnlyInBudget(evalCache[a].value.for, evalCache[d].value.for)

Outstanding(hd) == {j \in JobsOf(hd) : ~Settled(j)}

\* C13: within one /analyzeGame call a request is submitted only after every
\* earlier request of the call has resolved, so the call never has two
\* requests outstanding; the requests follow the plies (before ply N, after
\* ply N, before ply N + 1), and while the after-move request of a ply is
\* awaited the before-move result of that ply is in hand.
C13_OneRequestAtATime ==
    \A hd \in Handlers :
        h[hd].kind = "analyzeGame" =>
            /\ Cardinality(Outstanding(hd)) <= 1
            /\ \A j, k \in JobsOf(hd) :
                  j < k => /\ jobs[j].st = "resolved"
                           /\ Len(jobs[j].fen) <= Len(jobs[k].fen)
                           /\ jobs[j].fen = jobs[k].fen => jobs[j].multipv = 1
            /\ (h[hd].pc = "awaitBefore" /\ h[hd].wait # 0) =>
                  /\ jobs[h[hd].wait].fen = SubSeq(h[hd].moves, 1, h[hd].i)
                  /\ Len(h[hd].rows) = h[hd].i
            /\ (h[hd].pc = "awaitAfter" /\ h[hd].wait # 0) =>
                  /\ jobs[h[hd].wait].fen = SubSeq(h[hd].moves, 1, h[hd].i + 1)
                  /\ jobs[h[hd].wait].multipv = 1
                  /\ h[hd].engBefore # NoResult

\* Two games are analysed at once: the after-move request of one is
\* outstanding, submitted after its before-move request resolved, with a
\* request of the other game in between.
C13_Witness ==
    \E hd \in Handlers : \E j, k \in JobsOf(hd) : \E m \in DOMAIN jobs :
        /\ h[hd].pc = "awaitAfter"
        /\ j < m /\ m < k
        /\ jobs[m].owner # hd
        /\ k \in Outstanding(hd)

RowsOf(hd) == h[hd].resp.moves

\* The evaluation of a request's own that gave the result for the position
\* before a row's move (the last one asked for that position), and the one
\* for the position after it (asked with one candidate line).
BeforeJob(hd, row) ==
    CHOOSE j \in JobsOf(hd) :
        /\ jobs[j].fen = row.fenBefore
        /\ \A k \in JobsOf(hd) : jobs[k].fen = row.fenBefore => k <= j
AfterJob(hd, row) ==
    CHOOSE j \in JobsOf(hd) : jobs[j].fen = row.fenAfter /\ jobs[j].multipv = 1

\* A score in centipawns as the claim counts it
ClampedCp(score) ==
    IF score.type = "mate" THEN (IF score.value > 0 THEN 100000 ELSE -100000)
    ELSE score.value

\* C14: in every row of a report evalBestCp is the score of the top
\* candidate for the position before the move, evalHumanCp the negated
\* score of the top candidate for the position after it, and deltaCp their
\* difference; a mate score counts as +100000 when its distance is positive
\* and as -100000 otherwise, a centipawn score as its value.
C14_RowScores ==
    \A hd \in Handlers :
        Reported(hd) =>
            \A k \in DOMAIN RowsOf(hd) :
                LET row == RowsOf(hd)[k]
                    before == jobs[BeforeJob(hd, row)].out.candidates[1].score
                    after == jobs[AfterJob(hd, row)].out.candidates[1].score
                IN  /\ row.evalBestCp = ClampedCp(before)
                    /\ row.evalHumanCp = 0 - ClampedCp(after)
                    /\ row.deltaCp = row.evalBestCp - row.evalHumanCp

\* A report whose rows have a lost mate before the move (mate 0), a mate
\* for the opponent after it (mate 2) and centipawn scores.
C14_Witness ==
    \E hd \in Handlers :
        /\ Reported(hd)
        /\ \E k \in DOMAIN RowsOf(hd) : RowsOf(hd)[k].evalBestCp = -100000
        /\ \E k \in DOMAIN RowsOf(hd) : RowsOf(hd)[k].evalHumanCp = -100000
        /\ \E k \in DOMAIN RowsOf(hd) : RowsOf(hd)[k].deltaCp = -150

\* C17: a report has one row per recovered move, in game order: row k has
\* ply k, the k-th move, side white for odd k and black for even k, and the
\* position the moves before it lead to; the first row's fenBefore is the
\* starting position.
C17_RowPerMove ==
    \A hd \in Handlers :
        Reported(hd) =>
            /\ Len(RowsOf(hd)) = Len(h[hd].moves)
            /\ \A k \in DOMAIN RowsOf(hd) :
                  /\ RowsOf(hd)[k].ply = k
                  /\ RowsOf(hd)[k].san = h[hd].moves[k]
                  /\ RowsOf(hd)[k].side = IF k % 2 = 1 THEN "white" ELSE "black"
                  /\ RowsOf(hd)[k].fenBefore = SubSeq(h[hd].moves, 1, k - 1)
                  /\ RowsOf(hd)[k].fenAfter = SubSeq(h[hd].moves, 1, k)
            /\ RowsOf(hd) # <<>> => RowsOf(hd)[1].fenBefore = StartFen

\* The game 1. e4 e5 is reported with its two rows.
C17_Witness ==
    \E hd \in Handlers :
        /\ Reported(hd)
        /\ h[hd].moves = <<"e4", "e5">>
        /\ Len(RowsOf(hd)) = 2
        /\ RowsOf(hd)[1].side = "white" /\ RowsOf(hd)[1].san = "e4"
        /\ RowsOf(hd)[2].side = "black" /\ RowsOf(hd)[2].san = "e5"

RowsWith(hd, v) == {k \in DOMAIN RowsOf(hd) : RowsOf(hd)[k].verdict = v}

\* C18: in every report summary.inaccuracies, summary.mistakes and
\* summary.blunders are the numbers of rows with verdict Inaccuracy, Mistake
\* and Blunder, and together with the Okay rows they make up all rows.
C18_SummaryCounts ==
    \A hd \in Handlers :
        Reported(hd) =>
            LET sm == h[hd].resp.summary
            IN  /\ sm.inaccuracies = Cardinality(RowsWith(hd, "Inaccuracy"))
                /\ sm.mistakes = Cardinality(RowsWith(hd, "Mistake"))
                /\ sm.blunders = Cardinality(RowsWith(hd, "Blunder"))
                /\ sm.inaccuracies + sm.mistakes + sm.blunders
                       + Cardinality(RowsWith(hd, "Okay")) = Len(RowsOf(hd))

\* A report with one blunder and one other weak move, and nothing else.
C18_Witness ==
    \E hd \in Handlers :
        /\ Reported(hd)
        /\ h[hd].resp.summary.blunders = 1
        /\ h[hd].resp.summary.mistakes + h[hd].resp.summary.inaccuracies = 1
        /\ Len(RowsOf(hd)) = 2

\* The verdict of a delta of absolute value d as the claim gives it
VerdictOfMagnitude(d) ==
    CASE d >= 200 -> "Blunder"
      [] d >= 80 /\ d < 200 -> "Mistake"
      [] d >= 30 /\ d < 80 -> "Inaccuracy"
      [] d < 30 -> "Okay"

\* C15: the verdict of every row is the one the thresholds 200, 80, 30 give
\* for the absolute value of its delta, the same as for the opposite delta;
\* a missing delta is classified as 0, Okay.
C15_VerdictThresholds ==
    /\ verdictFromDeltaCp(NoDelta) = "Okay"
    /\ \A hd \in Handlers :
          Reported(hd) =>
              \A k \in DOMAIN RowsOf(hd) :
                  LET row == RowsOf(hd)[k]
                  IN  /\ row.verdict = VerdictOfMagnitude(IF row.deltaCp < 0 THEN 0 - row.deltaCp
                                                          ELSE row.deltaCp)
                      /\ row.verdict = verdictFromDeltaCp(Delta(0 - row.deltaCp))

\* A move that is 200 centipawns off in the negative direction is a Blunder.
C15_Witness ==
    \E hd \in Handlers :
        /\ Reported(hd)
        /\ RowsOf(hd)[1].deltaCp = -200
        /\ RowsOf(hd)[1].verdict = "Blunder"

Annotated(row) == row.note # Absent \/ row.better # Absent

\* C16: the model is called only for a ply whose verdict is not Okay, of a
\* request with withCoach = true, with a model configured; a row has a note
\* or a better field only in that case, and a request with withCoach = true
\* and no model configured is answered with a row per ply, none annotated,
\* unless the engine or the replay fails.
C16_CoachOnlyOnWeakMoves ==
    \A hd \in Handlers :
        /\ h[hd].pc = "awaitCoach" =>
              /\ coachModel
              /\ h[hd].withCoach
              /\ h[hd].pending[1].verdict # "Okay"
        /\ \A k \in DOMAIN h[hd].rows :
              Annotated(h[hd].rows[k]) =>
                  coachModel /\ h[hd].withCoach /\ h[hd].rows[k].verdict # "Okay"
        /\ \A k \in DOMAIN RowsOf(hd) :
              Annotated(RowsOf(hd)[k]) =>
                  coachModel /\ h[hd].withCoach /\ RowsOf(hd)[k].verdict # "Okay"
        /\ (h[hd].pc = "done" /\ h[hd].withCoach /\ ~coachModel /\ h[hd].cause = "none"
                /\ h[hd].resp.status # 400) =>
              /\ Reported(hd)
              /\ Len(RowsOf(hd)) = Len(h[hd].moves)

\* No model is configured: a request with withCoach = true is answered with
\* a report that has a blunder, and no row of it is annotated.
C16_Witness ==
    \E hd \in Handlers :
        /\ ~coachModel
        /\ h[hd].withCoach
        /\ Reported(hd)
        /\ Len(RowsOf(hd)) = Len(h[hd].moves)
        /\ \E k \in DOMAIN RowsOf(hd) : RowsOf(hd)[k].verdict = "Blunder"
        /\ \A k \in DOMAIN RowsOf(hd) : ~Annotated(RowsOf(hd)[k])

\* The step is the /analyzeGame callback of hd running on its request.
Parses(hd) == h[hd].pc = "received" /\ h'[hd] # h[hd]

\* parseGameLoose takes the salvage path on this pgn.
FallsBack(pgn) ==
    pgn.isString /\ pgn.text # <<>> /\ ~loadPgn(normalizePgn(pgn.text)).ok

RECURSIVE UpToResult(_)
UpToResult(toks) ==
    IF toks = <<>> \/ IsResult(Head(toks)) THEN <<>>
    ELSE <<Head(toks)>> \o UpToResult(Tail(toks))

\* The tokens the salvage scan tries as moves: those before the first
\* result token that are no move numbers.
Scanned(pgn) ==
    SelectSeq(UpToResult(FallbackBody(normalizePgn(pgn.text))), LAMBDA t : ~IsMoveNumber(t))

\* m is taken from toks in order, each token that is left out being one
\* that does not apply in the position reached when the scan meets it.
RECURSIVE TakenInOrder(_, _, _)
TakenInOrder(m, toks, k) ==
    IF toks = <<>> THEN k = Len(m)
    ELSE IF k < Len(m) /\ Head(toks) = m[k + 1] /\ LegalSan(SubSeq(m, 1, k), Head(toks))
         THEN TakenInOrder(m, Tail(toks), k + 1)
    ELSE /\ ~LegalSan(SubSeq(m, 1, k), Head(toks))
         /\ TakenInOrder(m, Tail(toks), k)

\* C19: on the salvage path the parse fails exactly when no scanned token
\* applies; otherwise the moves recovered are the scanned tokens that apply,
\* in order, each legal in the position reached by those before it, the
\* tokens that do not apply being skipped, move numbers ignored and nothing
\* after the first result token looked at.
C19_Salvage ==
    [][\A hd \in Handlers :
          (Parses(hd) /\ FallsBack(h[hd].pgn)) =>
              LET toks == Scanned(h[hd].pgn)
                  m == h'[hd].moves
              IN  /\ h'[hd].resp.status = 400 <=>
                         \A k \in DOMAIN toks : ~LegalSan(<<>>, toks[k])
                  /\ h'[hd].resp.status = 400 => h'[hd].resp.error = "Invalid PGN after normalize"
                  /\ h'[hd].resp.status # 400 =>
                         /\ m # <<>>
                         /\ \A k \in DOMAIN m : LegalSan(SubSeq(m, 1, k - 1), m[k])
                         /\ TakenInOrder(m, toks, 0)]_vars

\* The text "zz e4 e5" has been salvaged to e4 e5: the token that does not
\* apply was skipped.
C19_Witness ==
    \E hd \in Handlers :
        /\ h[hd].pgn = StringPgn(<<"zz", "e4", "e5">>)
        /\ h[hd].pc = "awaitBefore"
        /\ h[hd].moves = <<"e4", "e5">>

\* C20: a game decorated with a comment, a variation, a NAG, a non-breaking
\* space or castling written with zeros is recovered to the same moves as
\* the movetext without the decoration.
C20_DecorationsIgnored ==
    [][\A hd \in Handlers : \A n \in 1..MaxPly, pos \in 0..MaxPly : \A d \in Decorations :
          (Parses(hd) /\ h[hd].pgn = StringPgn(Decorated(n, d, pos))) =>
              LET clean == parseGameLoose(Decorated(n, CleanOf(d), pos))
              IN  /\ ~clean.isNull
                  /\ h'[hd].resp.status # 400
                  /\ h'[hd].moves = clean.moves]_vars

\* C21: every request submitted through enqueue is started exactly once
\* (it has left the queue exactly when pump has called its fn, and pump
\* calls no fn twice), the queue is never left non-empty while no request
\* is in flight, and the future of every request eventually settles unless
\* the engine leaves a started request without its answer.
C21_NoLostWakeup ==
    /\ [](queue # <<>> => InFlight # {})
    /\ [](busy <=> InFlight # {})
    /\ [](\A a, b \in DOMAIN startLog : startLog[a] = startLog[b] => a = b)
    /\ [](\A j \in DOMAIN jobs : jobs[j].st = "queued" <=> j \notin Started)
    /\ [](\A j \in DOMAIN jobs : jobs[j].st = "queued" <=> j \in SeqRange(queue))
    /\ \A j \in JobIds : (j \in DOMAIN jobs) ~> ((j \in DOMAIN jobs /\ Settled(j)) \/ hung # {})

\* Three requests have been submitted, one of them failed, and all three
\* futures have settled.
C21_Witness ==
    /\ Len(jobs) >= 3
    /\ \A j \in DOMAIN jobs : Settled(j)
    /\ \E j \in DOMAIN jobs : jobs[j].st = "rejected"
    /\ hung = {}
    /\ \E hd \in Handlers : hd > 1 /\ h[hd].kind = "analyze" /\ h[1].kind = "analyze"

\* C22 as stated: analysing an N-ply game sends 2N requests to the engine.
C22_TwoRequestsPerPly ==
    \A hd \in Handlers :
        Reported(hd) => Cardinality(JobsOf(hd)) = 2 * Len(h[hd].moves)

\* The evaluation the handler record r has just asked for: of position fen
\* with multipv candidate lines, answered from the cache or submitted as the
\* newest job, which waits in the queue or has just been started.
AskedFor(hd, r, fen, multipv) ==
    /\ r.key = CacheKey(fen, r.depth, multipv, r.movetime)
    /\ IF r.wait = 0
       THEN UNCHANGED jobs
       ELSE /\ Len(jobs') = Len(jobs) + 1
            /\ r.wait = Len(jobs')
            /\ jobs'[r.wait].owner = hd
            /\ jobs'[r.wait].fen = fen
            /\ jobs'[r.wait].multipv = multipv
            /\ \/ r.wait \in SeqRange(queue')
               \/ startLog' = Append(startLog, r.wait)

\* C22 amended: each ply of analyzeGame makes exactly two analyzeFenCached
\* calls, first for the position before the move with the configured
\* candidate-line count, then for the position after it with count 1, and
\* a row is pushed only after the second; a call that misses submits one
\* request through the queue, a call that hits submits none.  So an N-ply
\* game sends at most 2N requests, and exactly 2N when it is configured
\* with a count other than 1 and no other request has asked the engine for
\* anything.
C22_TwoCallsPerPly ==
    /\ [](\A hd \in Handlers :
            Reported(hd) =>
                /\ Cardinality(JobsOf(hd)) <= 2 * Len(h[hd].moves)
                /\ (/\ \A j \in DOMAIN jobs : jobs[j].owner = hd
                    /\ \E j \in JobsOf(hd) : jobs[j].multipv # 1) =>
                       Cardinality(JobsOf(hd)) = 2 * Len(h[hd].moves))
    /\ [][\A hd \in Handlers :
            LET r == h[hd]
                s == h'[hd]
            IN  /\ (s # r /\ s.pc = "awaitBefore") =>
                       /\ r.pc \in {"idle", "received", "awaitAfter", "awaitCoach"}
                       /\ s.i = Len(s.rows)
                       /\ s.i < Len(s.moves)
                       /\ AskedFor(hd, s, SubSeq(s.moves, 1, s.i), s.multipv)
                /\ (s # r /\ s.pc = "awaitAfter") =>
                       /\ r.pc = "awaitBefore"
                       /\ s.i = r.i /\ s.rows = r.rows /\ s.moves = r.moves
                       /\ AskedFor(hd, s, SubSeq(s.moves, 1, s.i + 1), 1)
                /\ (s.kind = "analyzeGame" /\ r.pc \notin {"awaitBefore", "awaitAfter"}
                        /\ s.pc \notin {"awaitBefore", "awaitAfter"}) =>
                       Len(jobs') = Len(jobs) \/ \E k \in Handlers : k # hd /\ h'[k] # h[k]
                /\ (s.pc # "done" /\ Len(s.rows) # Len(r.rows)) =>
                       /\ r.pc \in {"awaitAfter", "awaitCoach"}
                       /\ Len(s.rows) = Len(r.rows) + 1]_vars

\* A two-ply game configured with three candidate lines has been reported
\* on a cold cache: four requests, all its own.
C22_Witness ==
    \E hd \in Handlers :
        /\ Reported(hd)
        /\ Len(h[hd].moves) = 2
        /\ \A j \in DOMAIN jobs : jobs[j].owner = hd
        /\ Cardinality(JobsOf(hd)) = 4
        /\ \E j \in JobsOf(hd) : jobs[j].multipv = 3

\* C23: at most one analysis listener is attached to the engine at any
\* time, and no listener of a request that has finished or failed is
\* attached while another request is in flight.
C23_OneListener ==
    /\ Cardinality(listeners) <= 1
    /\ \A j \in listeners : \A k \in InFlight :
           k # j => jobs[j].st \notin {"fnResolved", "fnRejected", "resolved", "rejected"}

\* The ranks the engine has tagged a line of the search of j with
RanksSent(j) == {jobs[j].sent[k].multipv : k \in DOMAIN jobs[j].sent} \ {0}

\* The last line of rank r the engine has emitted for the search of j
LastSent(j, r) ==
    LET at == CHOOSE k \in DOMAIN jobs[j].sent :
                  /\ jobs[j].sent[k].multipv = r
                  /\ \A i \in DOMAIN jobs[j].sent : jobs[j].sent[i].multipv = r => i <= k
    IN  jobs[j].sent[at]

\* C24: the candidates of the result of analyzeFen are in strictly
\* ascending rank order, one per rank that the engine tagged a line of this
\* request's search with and no other, and each carries the score of the
\* last line of its rank emitted between the start of the request and its
\* bestmove line.
C24_CandidatesRanked ==
    \A j \in DOMAIN jobs :
        jobs[j].st \in {"fnResolved", "resolved"} =>
            LET c == jobs[j].out.candidates
            IN  /\ \A a, b \in DOMAIN c : a < b => c[a].rank < c[b].rank
                /\ {c[k].rank : k \in DOMAIN c} = RanksSent(j)
                /\ \A k \in DOMAIN c :
                      LET last == LastSent(j, c[k].rank)
                      IN  c[k].score = IF last.score.type = "mate" THEN last.score
                                       ELSE IF last.score.type = "cp" THEN last.score
                                       ELSE CpScore(0)

\* The engine sent rank 2, then rank 1, then rank 2 again without a score:
\* the result lists rank 1, then rank 2 with the score of its later line;
\* the request ran after one whose postMessage threw, whose listener heard
\* the same lines.
C24_Witness ==
    \E j \in DOMAIN jobs :
        /\ jobs[j].st = "resolved"
        /\ jobs[j].sent = <<InfoLine(2, MateScore(1)), InfoLine(1, CpScore(20)),
                            InfoLine(2, NoScore)>>
        /\ jobs[j].out.candidates = <<Candidate(1, CpScore(20)), Candidate(2, CpScore(0))>>
        /\ \E k \in DOMAIN jobs : k < j /\ jobs[k].st = "rejected" /\ jobs[k].lines # <<>>

\* The cached evaluations of the key that have failed, and those that have
\* resolved
FailedFor(key) ==
    {j \in DOMAIN jobs : jobs[j].cached /\ jobs[j].st = "rejected" /\ JobKeyOf(jobs[j]) = key}
ResolvedFor(key) ==
    {j \in DOMAIN jobs : jobs[j].cached /\ jobs[j].st = "resolved" /\ JobKeyOf(jobs[j]) = key}

\* C25: a failed evaluation leaves the cache unchanged.  Every entry holds
\* the result of an evaluation of its key that resolved; the step in which
\* analyzeFenCached resumes from a failed evaluation changes no entry; and a
\* call with a key whose evaluations so far have all failed submits to the
\* engine again.
C25_FailureNotCached ==
    /\ [](\A k \in DOMAIN evalCache :
            \E j \in ResolvedFor(evalCache[k].key) : jobs[j].out = evalCache[k].value)
    /\ [][\A hd \in Handlers :
            /\ (h'[hd] # h[hd] /\ AtAwait(h[hd]) /\ h[hd].wait # 0
                    /\ jobs[h[hd].wait].st = "rejected") =>
                   /\ evalCache' = evalCache
                   /\ h'[hd].pc = "done"
            /\ (CallsCached(hd) /\ FailedFor(h'[hd].key) # {}
                    /\ ResolvedFor(h'[hd].key) = {}) =>
                   /\ Len(jobs') = Len(jobs) + 1
                   /\ h'[hd].wait = Len(jobs')
                   /\ JobKeyOf(jobs'[Len(jobs')]) = h'[hd].key]_vars

\* The evaluation of a key failed, a later request asked for the same key
\* again, its evaluation resolved and is what the cache holds.
C25_Witness ==
    \E j, k \in DOMAIN jobs :
        /\ j < k
        /\ jobs[j].cached /\ jobs[k].cached
        /\ jobs[j].st = "rejected"
        /\ jobs[k].st = "resolved"
        /\ JobKeyOf(jobs[j]) = JobKeyOf(jobs[k])
        /\ jobs[j].owner # jobs[k].owner
        /\ h[jobs[j].owner].pc = "done"
        /\ CacheHas(evalCache, JobKeyOf(jobs[k]))
        /\ CacheValue(evalCache, JobKeyOf(jobs[k])) = jobs[k].out

\* The result of the evaluation j has no candidate line.
NoCandidates(j) == jobs[j].st = "resolved" /\ jobs[j].out.candidates = <<>>

\* C26: when the engine's result for a position has no candidate line (no
\* line of its search had a multipv tag), analyzeGame scores that position
\* as 0 centipawns: the row's delta and verdict are computed from that 0,
\* and the request does not fail unless an evaluation was rejected.
C26_NoCandidatesScoreZero ==
    \A hd \in Handlers :
        /\ (h[hd].kind = "analyzeGame" /\ h[hd].pc = "done") =>
               (Reported(hd) \/ \E j \in JobsOf(hd) : jobs[j].st = "rejected")
        /\ \A j \in JobsOf(hd) : NoCandidates(j) <=> (jobs[j].st = "resolved" /\ RanksSent(j) = {})
        /\ Reported(hd) =>
               /\ Len(RowsOf(hd)) = Len(h[hd].moves)
               /\ \A k \in DOMAIN RowsOf(hd) :
                     LET row == RowsOf(hd)[k]
                     IN  /\ NoCandidates(BeforeJob(hd, row)) =>
                                /\ row.evalBestCp = 0
                                /\ row.deltaCp = 0 - row.evalHumanCp
                         /\ NoCandidates(AfterJob(hd, row)) =>
                                /\ row.evalHumanCp = 0
                                /\ row.deltaCp = row.evalBestCp
                         /\ row.verdict = VerdictOfMagnitude(IF row.deltaCp < 0
                                                             THEN 0 - row.deltaCp
                                                             ELSE row.deltaCp)

\* The game 1. e4 is reported: the position before the move was scored
\* -100, the engine answered "bestmove (none)" with an untagged score line
\* for the position after it, and the row has evalHumanCp 0, delta -100,
\* verdict Mistake.
C26_Witness ==
    \E hd \in Handlers :
        /\ Reported(hd)
        /\ Len(RowsOf(hd)) = 1
        /\ NoCandidates(AfterJob(hd, RowsOf(hd)[1]))
        /\ jobs[AfterJob(hd, RowsOf(hd)[1])].out.bestmove = "(none)"
        /\ jobs[AfterJob(hd, RowsOf(hd)[1])].sent = <<InfoLine(0, MateScore(0))>>
        /\ RowsOf(hd)[1].evalBestCp = -100
        /\ RowsOf(hd)[1].evalHumanCp = 0
        /\ RowsOf(hd)[1].deltaCp = -100
        /\ RowsOf(hd)[1].verdict = "Mistake"

\* C27: every row of a report that is classified Okay is shown by the
\* frontend as a good move and counted in the Great/Best tally, so in every
\* scope the four tallies of summarizeMoves add up to the number of rows in
\* that scope.
C27_OkayShownAsGood ==
    \A hd \in Handlers :
        Reported(hd) =>
            /\ \A k \in DOMAIN RowsOf(hd) :
                  RowsOf(hd)[k].verdict = "Okay" =>
                      /\ Advice(RowsOf(hd)[k]).good
                      /\ Advice(RowsOf(hd)[k]).tone = "emerald"
            /\ \A scope \in Scopes :
                  LET s == summarizeMoves(RowsOf(hd), scope)
                  IN  /\ s.greatBest = Len(SelectSeq(InScope(RowsOf(hd), scope),
                                                     LAMBDA m : m.verdict = "Okay"))
                      /\ s.greatBest + s.inaccuracies + s.mistakes + s.blunders
                             = Len(InScope(RowsOf(hd), scope))

====
